---- MODULE Spec2Model ----
(***************************************************************************)
(* TeaCache step caching of WanModel.forward (wanvideo/modules/model.py).  *)
(*                                                                         *)
(* Tensors are modelled as short tuples of integers, each a float32        *)
(* element; elementwise sums and differences, sum(), mean(), division and  *)
(* np.poly1d are binary floating-point operations with the rounding of     *)
(* their dtype.  Python's None is the empty tuple where a tensor is        *)
(* expected and -1 where a prediction id is expected.                      *)
(*                                                                         *)
(* streak is a history variable, no state of the program: per prediction   *)
(* id, the number of steps skipped since the session last computed and the *)
(* smallest distance among them.  Only the specification SpecSkips         *)
(* maintains it.                                                           *)
(***************************************************************************)
EXTENDS Integers, Sequences, FiniteSets, TLC

VARIABLES enable_teacache, rel_l1_thresh, teacache_start_step,
          teacache_end_step, teacache_use_coefficients, teacache_coefficients,
          states, next_pred_id, call, ret, streak

cfgvars == <<enable_teacache, rel_l1_thresh, teacache_start_step,
             teacache_end_step, teacache_use_coefficients,
             teacache_coefficients>>
vars == <<enable_teacache, rel_l1_thresh, teacache_start_step,
          teacache_end_step, teacache_use_coefficients, teacache_coefficients,
          states, next_pred_id, call, ret, streak>>

-----------------------------------------------------------------------------
(* Bounds of the model *)
MaxPred == 2
MaxStep == 1
MaxSkipped == 2
MaxTimestep == 2

None == <<>>
NoPred == -1

-----------------------------------------------------------------------------
(* Scalars.  A scalar is [dtype, m, e] with value m * 2^e, m odd or        *)
(* m = e = 0: a 0-dim float32 tensor, a numpy float64 or the Python int 0. *)
(* m = 0 with e = 1 is nan, m = 1 or -1 with e = InfExp is +inf or -inf.   *)
(* The sign of a zero is not kept: no operation here tells -0.0 from 0.0   *)
(* (a zero divisor is always the mean of absolute values, +0.0).           *)
(* float64 arithmetic needs the exact result's mantissa to fit the         *)
(* integers used here (31 bits, well inside the 53 of a double).           *)
(* rel_l1_thresh, a Python float written as a decimal, is the fraction     *)
(* <<numerator, denominator>> with a positive denominator below 2^22.      *)
Abs(n) == IF n < 0 THEN -n ELSE n
Sign(n) == IF n < 0 THEN -1 ELSE IF n = 0 THEN 0 ELSE 1
Max(a, b) == IF a < b THEN b ELSE a
Min(a, b) == IF a < b THEN a ELSE b

(* Number of bits of n >= 0 *)
BitLen8(n) ==
    IF n < 16
    THEN IF n < 4 THEN (IF n < 2 THEN n ELSE 2) ELSE (IF n < 8 THEN 3 ELSE 4)
    ELSE IF n < 64 THEN (IF n < 32 THEN 5 ELSE 6) ELSE (IF n < 128 THEN 7 ELSE 8)

RECURSIVE BitLen(_)
BitLen(n) == IF n < 256 THEN BitLen8(n) ELSE 8 + BitLen(n \div 256)

RECURSIVE Strip(_, _)
Strip(m, e) ==
    IF m = 0 THEN <<0, 0>>
    ELSE IF m % 2 = 1 THEN <<m, e>>
    ELSE IF m % 256 = 0 THEN Strip(m \div 256, e + 8)
    ELSE Strip(m \div 2, e + 1)

Scalar(dtype, m, e) ==
    LET p == Strip(m, e) IN [dtype |-> dtype, m |-> p[1], e |-> p[2]]

(* Exponent that marks an infinity: 2^1024 is beyond every float *)
InfExp == 1024

NaN(dtype) == [dtype |-> dtype, m |-> 0, e |-> 1]
Inf(dtype, sign) == [dtype |-> dtype, m |-> sign, e |-> InfExp]
IsNaN(v) == v.m = 0 /\ v.e = 1
IsInf(v) == v.e = InfExp
IsFinite(v) == ~IsNaN(v) /\ ~IsInf(v)

(* Position of the leading bit of a finite nonzero scalar *)
Top(v) == v.e + BitLen(Abs(v.m))

(* IEEE 754 formats: mantissa bits, exponent of the smallest subnormal,    *)
(* and the power of two that is no longer finite                           *)
Precision(dtype) == IF dtype = "float32" THEN 24 ELSE 53
MinExp(dtype) == IF dtype = "float32" THEN -149 ELSE -1074
MaxTop(dtype) == IF dtype = "float32" THEN 128 ELSE 1024

(* q * 2^e, q >= 0, with the given sign as a value of the format: beyond   *)
(* the largest finite value it is an infinity                              *)
Pack(dtype, sign, q, e) ==
    IF q = 0 THEN Scalar(dtype, 0, 0)
    ELSE IF e > MaxTop(dtype) - 32 /\ e + BitLen(q) > MaxTop(dtype)
    THEN Inf(dtype, sign)
    ELSE Scalar(dtype, sign * q, e)

(* q + r / (2 * half) rounded to the nearest integer, ties to even *)
RoundQuot(q, r, half) ==
    IF r > half \/ (r = half /\ q % 2 = 1) THEN q + 1 ELSE q

(* a * 2^(-s) for 0 <= a < 2^31, rounded to the nearest integer, ties to   *)
(* even                                                                    *)
Shift(a, s) ==
    IF s <= 0 THEN a
    ELSE IF s >= 32 THEN 0
    ELSE IF s = 31 THEN (IF a > 2^30 THEN 1 ELSE 0)
    ELSE RoundQuot(a \div 2^s, a % 2^s, 2^(s - 1))

(* m * 2^e with the last s bits of m rounded off *)
RoundAt(dtype, m, e, s) ==
    Pack(dtype, Sign(m), Shift(Abs(m), s), IF s <= 0 THEN e ELSE e + s)

(* m * 2^e rounded to the nearest value of the format, ties to even: to    *)
(* Precision bits, to a multiple of 2^MinExp below the normal range        *)
(* (possibly 0), to an infinity from 2^MaxTop - half an ulp on.  A         *)
(* mantissa and an exponent well inside the format need no rounding.       *)
Round(dtype, m, e) ==
    IF /\ e >= MinExp(dtype)
       /\ e <= MaxTop(dtype) - 32
       /\ (dtype # "float32" \/ Abs(m) < 16777216)
    THEN Scalar(dtype, m, e)
    ELSE RoundAt(dtype, m, e, Max(BitLen(Abs(m)) - Precision(dtype), MinExp(dtype) - e))

(* The float32 and the float64 nearest to m * 2^e *)
Float32(m, e) == Round("float32", m, e)
Float64(m, e) == Round("float64", m, e)

(* The Python int 0 that new_prediction stores (line 775) *)
IntZero == [dtype |-> "int", m |-> 0, e |-> 0]

(* torch.tensor(0.0, dtype=torch.float32) *)
Zero == Float32(0, 0)

(* q with a nonzero remainder r kept as a sticky lowest bit *)
JamQuot(q, r) == IF r # 0 /\ q % 2 = 0 THEN q + 1 ELSE q

(* |m| * 2^(-s) as an integer; bits shifted out are kept as a sticky      *)
(* lowest bit                                                              *)
Jam(m, s) ==
    IF m = 0 THEN 0
    ELSE IF s <= 0 THEN Abs(m) * 2^(-s)
    ELSE IF s >= 31 THEN 1
    ELSE JamQuot(Abs(m) \div 2^s, Abs(m) % 2^s)

(* a + b, a * b and a / b with a nan or an infinity among the operands:    *)
(* inf - inf, 0 * inf and inf / inf are nan, x / inf is 0                  *)
AddNonFinite(dtype, a, b) ==
    IF IsNaN(a) \/ IsNaN(b) THEN NaN(dtype)
    ELSE IF IsInf(a) /\ IsInf(b) /\ a.m # b.m THEN NaN(dtype)
    ELSE IF IsInf(a) THEN Inf(dtype, a.m)
    ELSE Inf(dtype, b.m)

MulNonFinite(dtype, a, b) ==
    IF IsNaN(a) \/ IsNaN(b) \/ a.m = 0 \/ b.m = 0 THEN NaN(dtype)
    ELSE Inf(dtype, Sign(a.m) * Sign(b.m))

DivNonFinite(dtype, a, b) ==
    IF IsNaN(a) \/ IsNaN(b) \/ (IsInf(a) /\ IsInf(b)) THEN NaN(dtype)
    ELSE IF IsInf(b) THEN Scalar(dtype, 0, 0)
    ELSE Inf(dtype, IF b.m < 0 THEN -a.m ELSE a.m)

(* The exponent at which a + b is formed: the smaller exponent when the    *)
(* exact sum fits the integers used here, else three bits below the last   *)
(* mantissa bit of the larger operand                                      *)
AddGrid(a, b) ==
    IF a.m = 0 THEN b.e
    ELSE IF b.m = 0 THEN a.e
    ELSE IF a.e - b.e \in -6..6 THEN Min(a.e, b.e)
    ELSE Max(Top(a), Top(b)) - 27

AddAt(a, b, g) ==
    Float32(Sign(a.m) * Jam(a.m, g - a.e) + Sign(b.m) * Jam(b.m, g - b.e), g)

(* a + b on float32 tensors: the sum, rounded once *)
F32Add(a, b) ==
    IF ~IsFinite(a) \/ ~IsFinite(b) THEN AddNonFinite("float32", a, b)
    ELSE AddAt(a, b, AddGrid(a, b))

(* Binary long division of (q + r/d) * 2^e, five bits a step, down to at   *)
(* least 26 quotient bits; a remainder is kept as a sticky lowest bit      *)
RECURSIVE LongDiv(_, _, _, _)
LongDiv(q, r, d, e) ==
    IF r = 0 THEN <<q, e>>
    ELSE IF q >= 2^25 THEN <<IF q % 2 = 0 THEN q + 1 ELSE q, e>>
    ELSE LongDiv(32 * q + (32 * r) \div d, (32 * r) % d, d, e - 5)

(* (n / d) * 2^e rounded to float32; 0 / 0 is nan, x / 0 an infinity *)
F32Quot(n, d, e) ==
    IF d = 0 THEN (IF n = 0 THEN NaN("float32") ELSE Inf("float32", Sign(n)))
    ELSE LET p == LongDiv(Abs(n) \div Abs(d), Abs(n) % Abs(d), Abs(d), e)
         IN  Float32(Sign(n) * Sign(d) * p[1], p[2])

(* a / b on float32 tensors *)
F32Div(a, b) ==
    IF ~IsFinite(a) \/ ~IsFinite(b) THEN DivNonFinite("float32", a, b)
    ELSE F32Quot(a.m, b.m, a.e - b.e)

(* A Python float r = <<n, d>> cast to float32, as torch does with the     *)
(* scalar operand of an operation on a float32 tensor                      *)
F32Rat(r) == F32Quot(r[1], r[2], 0)

(* A scalar cast to float32 *)
F32Cast(v) ==
    IF IsNaN(v) THEN NaN("float32")
    ELSE IF IsInf(v) THEN Inf("float32", v.m)
    ELSE Float32(v.m, v.e)

(* A scalar as a Python float: .item() of a float32 tensor *)
F64Cast(v) ==
    IF IsNaN(v) THEN NaN("float64")
    ELSE IF IsInf(v) THEN Inf("float64", v.m)
    ELSE Float64(v.m, v.e)

(* a + b and a * b on Python/numpy floats *)
F64Add(a, b) ==
    IF ~IsFinite(a) \/ ~IsFinite(b) THEN AddNonFinite("float64", a, b)
    ELSE LET g == Min(a.e, b.e)
         IN  Float64(a.m * 2^(a.e - g) + b.m * 2^(b.e - g), g)

F64Mul(a, b) ==
    IF ~IsFinite(a) \/ ~IsFinite(b) THEN MulNonFinite("float64", a, b)
    ELSE Float64(a.m * b.m, a.e + b.e)

(* a < b on two scalars: False with a nan on either side, -inf below and   *)
(* +inf above every other number                                           *)
Less(a, b) ==
    IF IsNaN(a) \/ IsNaN(b) THEN FALSE
    ELSE IF IsInf(a) \/ IsInf(b)
    THEN (IF IsInf(a) THEN a.m < 0 /\ b # a ELSE b.m > 0)
    ELSE IF Sign(a.m) # Sign(b.m) THEN Sign(a.m) < Sign(b.m)
    ELSE IF a.m = 0 THEN FALSE
    ELSE IF Top(a) # Top(b) THEN (a.m > 0) = (Top(a) < Top(b))
    ELSE LET g == Min(a.e, b.e)
         IN  a.m * 2^(a.e - g) < b.m * 2^(b.e - g)

(* m < (q + r/d) * 2^k and m > (q + r/d) * 2^k for m, q, r >= 0 *)
RECURSIVE ScaledBelow(_, _, _, _, _)
ScaledBelow(m, q, r, d, k) ==
    IF q > m THEN TRUE
    ELSE IF k = 0 THEN m = q /\ r > 0
    ELSE ScaledBelow(m, 2 * q + (2 * r) \div d, (2 * r) % d, d, k - 1)

RECURSIVE ScaledAbove(_, _, _, _, _)
ScaledAbove(m, q, r, d, k) ==
    IF q > m THEN FALSE
    ELSE IF k = 0 THEN m > q
    ELSE ScaledAbove(m, 2 * q + (2 * r) \div d, (2 * r) % d, d, k - 1)

(* v < r for a scalar v and a Python float r = <<n, d>>, compared as       *)
(* float64: the double nearest to n/d lies on the same side of v as n/d    *)
LessRat(v, r) ==
    LET n == r[1]
        d == r[2]
        a == Abs(v.m)
    IN  IF IsNaN(v) THEN FALSE
        ELSE IF IsInf(v) THEN v.m < 0
        ELSE IF v.m < 0 /\ n >= 0 THEN TRUE
        ELSE IF v.m >= 0 /\ n <= 0 THEN FALSE
        ELSE IF v.m > 0
        THEN IF v.e >= 0 THEN a * 2^v.e * d < n
             ELSE ScaledBelow(a, n \div d, n % d, d, -v.e)
        ELSE IF v.e >= 0 THEN a * 2^v.e * d > -n
             ELSE ScaledAbove(a, (-n) \div d, (-n) % d, d, -v.e)

-----------------------------------------------------------------------------
(* Tensor operations.  A tensor is a tuple of integers, each the value of  *)
(* one float32 element; every elementwise operation rounds its result to   *)
(* float32 (sums and differences of integers round to integers).           *)

(* One element as a float32 scalar, and back *)
Elem(n) == Float32(n, 0)
ToInt(v) == v.m * 2^v.e

(* a + b of two float32 elements: exact below 2^24, rounded beyond *)
ElemAdd(a, b) ==
    IF Abs(a) < 8388608 /\ Abs(b) < 8388608 THEN a + b
    ELSE ToInt(F32Add(Elem(a), Elem(b)))

(* a + b and a - b of two float32 tensors *)
TAdd(a, b) == [i \in 1..Len(a) |-> ElemAdd(a[i], b[i])]
TSub(a, b) == [i \in 1..Len(a) |-> ElemAdd(a[i], -b[i])]
TAbs(a) == [i \in 1..Len(a) |-> Abs(a[i])]

(* Tensor.sum() of a float32 tensor: a float32 accumulator takes the       *)
(* elements in order, rounding after every addition                        *)
RECURSIVE SumFrom(_, _)
SumFrom(acc, s) == IF s = <<>> THEN acc ELSE SumFrom(ElemAdd(acc, Head(s)), Tail(s))

SumSeq(s) == SumFrom(0, s)

(* Tensor.mean() of a float32 tensor: the float32 sum divided by the       *)
(* number of elements, rounded again; nan for an empty tensor              *)
Mean(a) == F32Quot(SumSeq(a), Len(a), 0)

-----------------------------------------------------------------------------
(* Inputs of a forward call *)
Steps == 0..MaxStep
PredIds == 0..(MaxPred - 1)
PredArgs == {NoPred} \cup PredIds
Timesteps == 1..MaxTimestep
Latents == {<<1>>, <<2>>}
BlockOutputs == {<<4>>}

(* e = self.time_embedding(sinusoidal_embedding_1d(self.freq_dim, t)): a   *)
(* fixed function of the timestep t given the weights                      *)
time_embedding(t) == IF t % 3 = 0 THEN <<-10, 10>> ELSE <<10, 9 + t>>

(* e0 = self.time_projection(e): a fixed linear map of e                   *)
time_projection(e) == <<-e[2], e[1]>>

-----------------------------------------------------------------------------
(* Configuration: the attributes WanModel.__init__ creates and the caller  *)
(* sets once before a run                                                  *)
Thresholds == {<<3, 20>>, <<0, 1>>}
StepRanges == {<<0, -1>>, <<1, 1>>}
CoefficientLists == {<<>>, <<40, -1>>}

-----------------------------------------------------------------------------
(* Similarity estimator *)

(* relative_l1_distance(last_tensor, current_tensor): a float32 tensor *)
relative_l1_distance(last_tensor, current_tensor) ==
    LET l1_distance == Mean(TAbs(TSub(last_tensor, current_tensor)))
        norm == Mean(TAbs(last_tensor))
    IN  F32Div(l1_distance, norm)

(* numpy's polyval: y = 0; for pv in p: y = y * x + pv (highest degree      *)
(* first), on float64                                                      *)
RECURSIVE PolyVal(_, _, _)
PolyVal(p, x, y) ==
    IF p = <<>> THEN y
    ELSE PolyVal(Tail(p), x, F64Add(F64Mul(y, x), Float64(Head(p), 0)))

(* np.poly1d drops leading zero coefficients; with none left the          *)
(* polynomial has the single coefficient 0                                 *)
RECURSIVE TrimZeros(_)
TrimZeros(p) == IF p # <<>> /\ Head(p) = 0 THEN TrimZeros(Tail(p)) ELSE p

(* rescale_func = np.poly1d(self.teacache_coefficients); rescale_func(x)   *)
(* with x the Python float of .item(): a numpy float64                     *)
rescale_func(coefficients, x) ==
    LET c == TrimZeros(coefficients)
    IN  PolyVal(IF c = <<>> THEN <<0>> ELSE c, F64Cast(x), Float64(0, 0))

-----------------------------------------------------------------------------
(* TeaCacheState *)

NewState == [previous_residual |-> None,
             accumulated_rel_l1_distance |-> IntZero,
             previous_modulated_input |-> None,
             skipped_steps |-> 0]

(* TeaCacheState.new_prediction: the dictionary after the call *)
new_prediction(st, id) ==
    [i \in DOMAIN st \cup {id} |-> IF i = id THEN NewState ELSE st[i]]

(* Variant of update that merges kwargs into every session once pred_id    *)
(* is known                                                                *)
update_every_session(st, pred_id, kwargs) ==
    IF pred_id \notin DOMAIN st THEN st
    ELSE [i \in DOMAIN st |->
            [previous_residual |->
                IF "previous_residual" \in DOMAIN kwargs
                THEN kwargs.previous_residual
                ELSE st[i].previous_residual,
             accumulated_rel_l1_distance |->
                IF "accumulated_rel_l1_distance" \in DOMAIN kwargs
                THEN kwargs.accumulated_rel_l1_distance
                ELSE st[i].accumulated_rel_l1_distance,
             previous_modulated_input |->
                IF "previous_modulated_input" \in DOMAIN kwargs
                THEN kwargs.previous_modulated_input
                ELSE st[i].previous_modulated_input,
             skipped_steps |->
                IF "skipped_steps" \in DOMAIN kwargs
                THEN kwargs.skipped_steps
                ELSE st[i].skipped_steps]]

(* Variant of update that creates the session when pred_id is unknown *)
update_creates(st, pred_id, kwargs) ==
    [i \in DOMAIN st \cup {pred_id} |->
        IF i = pred_id
        THEN [previous_residual |-> None,
              accumulated_rel_l1_distance |-> IntZero,
              previous_modulated_input |-> None,
              skipped_steps |-> 0]
        ELSE st[i]]

(* TeaCacheState.update(pred_id, **kwargs): kwargs is a record of the      *)
(* fields to overwrite                                                     *)
update(st, pred_id, kwargs) ==
    IF pred_id \notin DOMAIN st THEN st
    ELSE LET old == st[pred_id]
         IN  [st EXCEPT ![pred_id] =
                [previous_residual |->
                    IF "previous_residual" \in DOMAIN kwargs
                    THEN kwargs.previous_residual
                    ELSE old.previous_residual,
                 accumulated_rel_l1_distance |->
                    IF "accumulated_rel_l1_distance" \in DOMAIN kwargs
                    THEN kwargs.accumulated_rel_l1_distance
                    ELSE old.accumulated_rel_l1_distance,
                 previous_modulated_input |->
                    IF "previous_modulated_input" \in DOMAIN kwargs
                    THEN kwargs.previous_modulated_input
                    ELSE old.previous_modulated_input,
                 skipped_steps |->
                    IF "skipped_steps" \in DOMAIN kwargs
                    THEN kwargs.skipped_steps
                    ELSE old.skipped_steps]]

(* TeaCacheState.get(pred_id)[key]: get returns {} for an unknown id, so   *)
(* the subscript raises KeyError                                           *)
HasKey(st, pred_id) == pred_id \in DOMAIN st

(* TeaCacheState.get(pred_id): self.states.get(pred_id, {}); the empty     *)
(* dict is the empty function                                              *)
get(st, pred_id) == IF pred_id \in DOMAIN st THEN st[pred_id] ELSE <<>>

(* TeaCacheState.clear_prediction *)
clear_prediction(st, pred_id) ==
    [i \in DOMAIN st \ {pred_id} |-> st[i]]

-----------------------------------------------------------------------------
(* WanModel.forward, the TeaCache part (lines 667-738) *)

(* Variant of teacache_active that forgets the upper end of the window *)
teacache_active_no_end(current_step) ==
    /\ enable_teacache
    /\ teacache_start_step <= current_step

(* self.enable_teacache and                                                *)
(* self.teacache_start_step <= current_step <= self.teacache_end_step      *)
teacache_active(current_step) ==
    /\ enable_teacache
    /\ teacache_start_step <= current_step
    /\ current_step <= teacache_end_step

(* The distance added to accumulated_rel_l1_distance: the numpy float64    *)
(* of rescale_func (line 683) or the float32 tensor of                     *)
(* relative_l1_distance (line 685)                                         *)
step_distance(previous_modulated_input, e, e0) ==
    IF teacache_use_coefficients
    THEN rescale_func(teacache_coefficients,
                      F32Div(Mean(TAbs(TSub(e, previous_modulated_input))),
                             Mean(TAbs(previous_modulated_input))))
    ELSE relative_l1_distance(previous_modulated_input, e0)

(* Variant of accumulate that drops the stored sum and keeps only the      *)
(* current step's distance                                                 *)
accumulate_forgets(accumulated_rel_l1_distance, distance) == F32Cast(distance)

(* accumulated_rel_l1_distance after the += of line 683 or the + of line   *)
(* 686: a float32 tensor stays one (a scalar operand is cast to float32),  *)
(* the Python int 0 or a numpy float64 plus a numpy float64 is a numpy     *)
(* float64                                                                 *)
accumulate(accumulated_rel_l1_distance, distance) ==
    IF accumulated_rel_l1_distance.dtype = "float32"
    THEN F32Add(accumulated_rel_l1_distance, F32Cast(distance))
    ELSE F64Add(accumulated_rel_l1_distance, distance)

(* Variant of below_thresh that also skips when the sum equals the         *)
(* threshold                                                               *)
below_thresh_or_equal(accumulated_rel_l1_distance) ==
    \/ Less(accumulated_rel_l1_distance, F32Rat(rel_l1_thresh))
    \/ accumulated_rel_l1_distance = F32Rat(rel_l1_thresh)

(* if accumulated_rel_l1_distance < self.rel_l1_thresh: should_calc = False *)
(* a float32 tensor is compared with the threshold cast to float32, a      *)
(* numpy float64 with the Python float itself                              *)
below_thresh(accumulated_rel_l1_distance) ==
    IF accumulated_rel_l1_distance.dtype = "float32"
    THEN Less(accumulated_rel_l1_distance, F32Rat(rel_l1_thresh))
    ELSE LessRat(accumulated_rel_l1_distance, rel_l1_thresh)

(* previous_modulated_input = e.clone() if self.teacache_use_coefficients  *)
(* else e0.clone()                                                         *)
modulated_input(e, e0) == IF teacache_use_coefficients THEN e ELSE e0

(* Variant of apply_residual that replaces x by the cached residual *)
apply_residual_replaces(x, previous_residual) == previous_residual

(* x += previous_residual.to(x.device) *)
apply_residual(x, previous_residual) == TAdd(x, previous_residual)

(* Variant of residual that stores the blocks' output itself *)
residual_is_output(x, original_x) == x

(* previous_residual=(x - original_x) *)
residual(x, original_x) == TSub(x, original_x)

(* Variant of skip_kwargs that also stores the snapshot of line 696 *)
skip_kwargs_with_snapshot(accumulated, skipped_steps, previous_modulated_input) ==
    [accumulated_rel_l1_distance |-> accumulated,
     skipped_steps |-> skipped_steps + 1,
     previous_modulated_input |-> previous_modulated_input]

(* kwargs of the update on a skipped step (lines 700-704) *)
skip_kwargs(accumulated, skipped_steps, previous_modulated_input) ==
    [accumulated_rel_l1_distance |-> accumulated,
     skipped_steps |-> skipped_steps + 1]

(* Variant of calc_kwargs that starts the skip counter again on a compute *)
calc_kwargs_resets_skipped(previous_residual, accumulated, previous_modulated_input) ==
    [previous_residual |-> previous_residual,
     accumulated_rel_l1_distance |-> accumulated,
     previous_modulated_input |-> previous_modulated_input,
     skipped_steps |-> 0]

(* kwargs of the update after the blocks ran (lines 726-731) *)
calc_kwargs(previous_residual, accumulated, previous_modulated_input) ==
    [previous_residual |-> previous_residual,
     accumulated_rel_l1_distance |-> accumulated,
     previous_modulated_input |-> previous_modulated_input]

(* What a call leaves behind for the caller: the tensor x handed to the    *)
(* head (None if the call raised), the returned pred_id, should_calc,      *)
(* whether the block loop ran, and the exception raised ("none" if none)   *)
Ret(x, pred_id, should_calc, ran_blocks, raised) ==
    [x |-> x, pred_id |-> pred_id, should_calc |-> should_calc,
     ran_blocks |-> ran_blocks, raised |-> raised]

Outcome(st, next, r) == [states |-> st, next_pred_id |-> next, ret |-> r]

(* Variant of forward_bypass in which the update of lines 725-731 goes     *)
(* through outside the window                                              *)
forward_bypass_writes(st, next, pred_id, block_out) ==
    IF enable_teacache /\ pred_id # NoPred
    THEN Outcome(update(st, pred_id,
                        [previous_residual |-> block_out,
                         accumulated_rel_l1_distance |-> Zero]),
                 next, Ret(block_out, pred_id, TRUE, TRUE, "none"))
    ELSE Outcome(st, next, Ret(block_out, pred_id, TRUE, TRUE, "none"))

(* TeaCache disabled or the step outside the window: should_calc stays     *)
(* True and the blocks run (lines 706-723); with TeaCache enabled and a    *)
(* pred_id given, the update of lines 725-731 then reads the local         *)
(* previous_modulated_input, which only line 676/696 assigns               *)
forward_bypass(st, next, pred_id, block_out) ==
    IF enable_teacache /\ pred_id # NoPred
    THEN Outcome(st, next, Ret(None, NoPred, TRUE, TRUE, "UnboundLocalError"))
    ELSE Outcome(st, next, Ret(block_out, pred_id, TRUE, TRUE, "none"))

(* Variant of forward_new whose closing update tests the pred_id argument  *)
(* (None) instead of the freshly allocated id                              *)
forward_new_no_update(st, next, e, e0, x, block_out) ==
    Outcome(new_prediction(st, next), next + 1,
            Ret(block_out, next, TRUE, TRUE, "none"))

(* pred_id is None inside the window (lines 670-674, 696, 706-731) *)
forward_new(st, next, e, e0, x, block_out) ==
    LET pred_id == next
        st1 == new_prediction(st, pred_id)
        st2 == update(st1, pred_id,
                      calc_kwargs(residual(block_out, x), Zero,
                                  modulated_input(e, e0)))
    IN  Outcome(st2, next + 1, Ret(block_out, pred_id, TRUE, TRUE, "none"))

(* pred_id given inside the window (lines 675-731).  Line 677 calls .to on *)
(* the stored previous_modulated_input, line 686 on the stored accumulated *)
(* distance, which only a tensor has.  The += of line 683 on a stored      *)
(* tensor changes that tensor in the store, before line 698 can raise.     *)
forward_cached(st, next, pred_id, e, e0, x, block_out) ==
    IF ~HasKey(st, pred_id)
    THEN Outcome(st, next, Ret(None, NoPred, TRUE, FALSE, "KeyError"))
    ELSE IF st[pred_id].previous_modulated_input = None
    THEN Outcome(st, next, Ret(None, NoPred, TRUE, FALSE, "AttributeError"))
    ELSE IF ~teacache_use_coefficients
            /\ st[pred_id].accumulated_rel_l1_distance.dtype # "float32"
    THEN Outcome(st, next, Ret(None, NoPred, TRUE, FALSE, "AttributeError"))
    ELSE
      LET previous_modulated_input == st[pred_id].previous_modulated_input
          previous_residual == st[pred_id].previous_residual
          stored == st[pred_id].accumulated_rel_l1_distance
          accumulated == accumulate(stored,
                             step_distance(previous_modulated_input, e, e0))
          st1 == IF teacache_use_coefficients /\ stored.dtype = "float32"
                 THEN update(st, pred_id,
                             [accumulated_rel_l1_distance |-> accumulated])
                 ELSE st
      IN  IF below_thresh(accumulated)
          THEN IF previous_residual = None
               THEN Outcome(st1, next,
                        Ret(None, NoPred, FALSE, FALSE, "AttributeError"))
               ELSE Outcome(
                      update(st1, pred_id,
                             skip_kwargs(accumulated,
                                         st[pred_id].skipped_steps,
                                         modulated_input(e, e0))),
                      next,
                      Ret(apply_residual(x, previous_residual), pred_id,
                          FALSE, FALSE, "none"))
          ELSE Outcome(
                 update(st1, pred_id,
                        calc_kwargs(residual(block_out, x), Zero,
                                    modulated_input(e, e0))),
                 next,
                 Ret(block_out, pred_id, TRUE, TRUE, "none"))

forward(st, next, current_step, pred_id, t, x, block_out) ==
    LET e == time_embedding(t)
        e0 == time_projection(e)
    IN  IF teacache_active(current_step)
        THEN IF pred_id = NoPred
             THEN forward_new(st, next, e, e0, x, block_out)
             ELSE forward_cached(st, next, pred_id, e, e0, x, block_out)
        ELSE forward_bypass(st, next, pred_id, block_out)

-----------------------------------------------------------------------------
(* State machine *)

Call(op, current_step, pred_id, t, x, block_out) ==
    [op |-> op, current_step |-> current_step, pred_id |-> pred_id,
     t |-> t, x |-> x, block_out |-> block_out]

NoCall == Call("init", 0, NoPred, 0, None, None)
NoRet == Ret(None, NoPred, TRUE, FALSE, "none")

(* WanModel.__init__ (lines 507-515) followed by the caller's one-time     *)
(* configuration; teacache_state = TeaCacheState()                         *)
Init ==
    /\ enable_teacache \in BOOLEAN
    /\ rel_l1_thresh \in Thresholds
    /\ \E r \in StepRanges :
          teacache_start_step = r[1] /\ teacache_end_step = r[2]
    /\ teacache_use_coefficients \in BOOLEAN
    /\ teacache_coefficients \in CoefficientLists
    /\ teacache_use_coefficients \/ teacache_coefficients = <<>>
    /\ states = <<>>
    /\ next_pred_id = 0
    /\ call = NoCall
    /\ ret = NoRet
    /\ streak = <<>>

Forward ==
    \E current_step \in Steps, pred_id \in PredArgs, t \in Timesteps,
       x \in Latents, block_out \in BlockOutputs :
       \E o \in {forward(states, next_pred_id, current_step, pred_id, t, x,
                         block_out)} :
           /\ o.next_pred_id <= MaxPred
           /\ \A i \in DOMAIN o.states :
                 o.states[i].skipped_steps <= MaxSkipped
           /\ states' = o.states
           /\ next_pred_id' = o.next_pred_id
           /\ ret' = o.ret
           /\ call' = Call("forward", current_step, pred_id, t, x, block_out)
           /\ UNCHANGED <<cfgvars, streak>>

(* teacache_state.clear_prediction(pred_id) called by the sampler *)
ClearPrediction ==
    \E pred_id \in PredIds :
       /\ states' = clear_prediction(states, pred_id)
       /\ call' = Call("clear_prediction", 0, pred_id, 0, None, None)
       /\ ret' = NoRet
       /\ UNCHANGED <<cfgvars, next_pred_id, streak>>

(* Variant of ClearAll that empties the dictionary and keeps the counter *)
ClearAllKeepsCounter ==
    /\ states' = <<>>
    /\ call' = Call("clear_all", 0, NoPred, 0, None, None)
    /\ ret' = NoRet
    /\ UNCHANGED <<cfgvars, next_pred_id, streak>>

(* teacache_state.clear_all() called by the sampler *)
ClearAll ==
    /\ states' = <<>>
    /\ next_pred_id' = 0
    /\ call' = Call("clear_all", 0, NoPred, 0, None, None)
    /\ ret' = NoRet
    /\ UNCHANGED <<cfgvars, streak>>

Next == Forward \/ ClearPrediction \/ ClearAll

Spec == Init /\ [][Next]_vars

-----------------------------------------------------------------------------
(* TeaCacheState driven directly through its methods *)

(* Keyword arguments of the update calls *)
UpdateKwargs ==
    {[skipped_steps |-> 1],
     [accumulated_rel_l1_distance |-> F32Rat(<<1, 20>>), skipped_steps |-> 2],
     [previous_residual |-> <<3>>,
      accumulated_rel_l1_distance |-> Zero,
      previous_modulated_input |-> <<10, 10>>]}

(* WanModel.__init__ with its defaults (lines 508-516) and an empty        *)
(* TeaCacheState (lines 764-767)                                           *)
StoreInit ==
    /\ enable_teacache = FALSE
    /\ rel_l1_thresh = <<3, 20>>
    /\ teacache_start_step = 0
    /\ teacache_end_step = -1
    /\ teacache_use_coefficients = FALSE
    /\ teacache_coefficients = <<>>
    /\ states = <<>>
    /\ next_pred_id = 0
    /\ call = NoCall
    /\ ret = NoRet
    /\ streak = <<>>

(* TeaCacheState.new_prediction(): ret.pred_id is the id returned *)
NewPrediction ==
    /\ next_pred_id < MaxPred
    /\ LET pred_id == next_pred_id
       IN  /\ next_pred_id' = next_pred_id + 1
           /\ states' = new_prediction(states, pred_id)
           /\ ret' = Ret(None, pred_id, TRUE, FALSE, "none")
    /\ call' = Call("new_prediction", 0, NoPred, 0, None, None)
    /\ UNCHANGED <<cfgvars, streak>>

(* TeaCacheState.update(pred_id, **kwargs) *)
Update ==
    \E pred_id \in PredIds, kwargs \in UpdateKwargs :
       /\ states' = update(states, pred_id, kwargs)
       /\ call' = Call("update", 0, pred_id, 0, None, None)
       /\ ret' = NoRet
       /\ UNCHANGED <<cfgvars, next_pred_id, streak>>

(* TeaCacheState.get(pred_id): ret.x is the dict returned *)
Get ==
    \E pred_id \in PredIds :
       /\ ret' = Ret(get(states, pred_id), NoPred, TRUE, FALSE, "none")
       /\ call' = Call("get", 0, pred_id, 0, None, None)
       /\ UNCHANGED <<cfgvars, states, next_pred_id, streak>>

StoreNext ==
    NewPrediction \/ Update \/ Get \/ ClearPrediction \/ ClearAll

SpecStore == StoreInit /\ [][StoreNext]_vars

-----------------------------------------------------------------------------
(* One sampling run: the caller passes pred_id=None on the first call,     *)
(* hands the returned pred_id to the next call, and counts current_step up *)
(* from 0 to one step past MaxStep; an exception ends the run              *)

RunSteps == 0..(MaxStep + 1)

RunForward ==
    \E t \in Timesteps, x \in Latents, block_out \in BlockOutputs :
       LET first == call.op = "init"
           current_step == IF first THEN 0 ELSE call.current_step + 1
           pred_id == IF first THEN NoPred ELSE ret.pred_id
       IN  \E o \in {forward(states, next_pred_id, current_step, pred_id, t,
                             x, block_out)} :
           /\ current_step \in RunSteps
           /\ ret.raised = "none"
           /\ o.next_pred_id <= MaxPred
           /\ states' = o.states
           /\ next_pred_id' = o.next_pred_id
           /\ ret' = o.ret
           /\ call' = Call("forward", current_step, pred_id, t, x, block_out)
           /\ UNCHANGED <<cfgvars, streak>>

SpecRun == Init /\ [][RunForward]_vars

-----------------------------------------------------------------------------
(* Forward calls observed together with the skip streak of each session:   *)
(* streak[i].n counts the skipped steps of session i since its last        *)
(* computing step, streak[i].d is the smallest distance line 683/686 added *)
(* on one of them (Zero if one was not a finite number)                    *)

NoStreak == [n |-> 0, d |-> Zero]

RMin(a, b) == IF Less(b, a) THEN b ELSE a

streak_after(sk, st, pred_id, t, r) ==
    IF r.raised # "none" \/ r.pred_id = NoPred
    THEN sk
    ELSE IF r.should_calc
    THEN [i \in DOMAIN sk \cup {r.pred_id} |->
            IF i = r.pred_id THEN NoStreak ELSE sk[i]]
    ELSE LET e == time_embedding(t)
             distance == step_distance(st[pred_id].previous_modulated_input,
                                       e, time_projection(e))
             least == IF ~IsFinite(distance) THEN Zero
                      ELSE IF sk[pred_id].n = 0 THEN distance
                      ELSE RMin(sk[pred_id].d, distance)
         IN  [sk EXCEPT ![pred_id] = [n |-> @.n + 1, d |-> least]]

ForwardSkips ==
    \E current_step \in Steps, pred_id \in PredArgs, t \in Timesteps,
       x \in Latents, block_out \in BlockOutputs :
       \E o \in {forward(states, next_pred_id, current_step, pred_id, t, x,
                         block_out)} :
           /\ o.next_pred_id <= MaxPred
           /\ \A i \in DOMAIN o.states :
                 o.states[i].skipped_steps <= MaxSkipped + 1
           /\ states' = o.states
           /\ next_pred_id' = o.next_pred_id
           /\ ret' = o.ret
           /\ call' = Call("forward", current_step, pred_id, t, x, block_out)
           /\ streak' = streak_after(streak, states, pred_id, t, o.ret)
           /\ UNCHANGED cfgvars

SkipsNext == ForwardSkips \/ ClearPrediction \/ ClearAll

SpecSkips == Init /\ [][SkipsNext]_vars

-----------------------------------------------------------------------------
(* Properties *)

IsForward == call.op = "forward"
InWindow(step) == teacache_start_step <= step /\ step <= teacache_end_step
Session(i) == states[i]

(* C1: with TeaCache disabled, or with the step index outside              *)
(* [teacache_start_step, teacache_end_step], a forward call runs the block *)
(* loop and does not take the cached-residual branch, whatever pred_id is  *)
(* passed and whatever the store holds: should_calc is True, the blocks    *)
(* ran, and the tensor handed on (when the call returns) is the blocks'    *)
(* output.                                                                 *)
C1_BypassAlwaysComputes ==
    (IsForward /\ (~enable_teacache \/ ~InWindow(call.current_step)))
        => /\ ret.should_calc
           /\ ret.ran_blocks
           /\ (ret.raised = "none" => ret.x = call.block_out)

C1_Witness ==
    /\ IsForward
    /\ enable_teacache
    /\ ~InWindow(call.current_step)
    /\ call.pred_id \in DOMAIN states
    /\ Session(call.pred_id).previous_residual # None
    /\ ret.ran_blocks

(* C2: a forward call with TeaCache enabled whose step index is outside    *)
(* the window leaves the store unchanged: no session is created, no field  *)
(* of any session is written and the id counter keeps its value, also when *)
(* the call is given the id of an existing session.                        *)
C2_OutsideWindowStoreUnchanged ==
    [][(call'.op = "forward" /\ enable_teacache
            /\ ~InWindow(call'.current_step))
          => (states' = states /\ next_pred_id' = next_pred_id)]_vars

C2_Witness ==
    /\ IsForward
    /\ enable_teacache
    /\ call.current_step < teacache_start_step
    /\ call.pred_id \in DOMAIN states
    /\ Session(call.pred_id).skipped_steps > 0
    /\ Cardinality(DOMAIN states) = MaxPred

(* C3: a forward call inside the window with pred_id None allocates a      *)
(* session and computes on that same call, so every session in the store   *)
(* has a stored previous_modulated_input and previous_residual.            *)
C3_SessionsAlwaysHaveSnapshot ==
    /\ \A i \in DOMAIN states :
          /\ Session(i).previous_modulated_input # None
          /\ Session(i).previous_residual # None
    /\ (IsForward /\ enable_teacache /\ InWindow(call.current_step)
            /\ call.pred_id = NoPred)
          => /\ ret.should_calc
             /\ ret.ran_blocks
             /\ ret.raised = "none"
             /\ ret.pred_id \in DOMAIN states

C3_Witness ==
    /\ IsForward
    /\ enable_teacache
    /\ InWindow(call.current_step)
    /\ call.pred_id = NoPred
    /\ ret.pred_id = 1
    /\ Session(1).previous_modulated_input # None
    /\ Session(1).previous_residual = TSub(call.block_out, call.x)

(* The modulation signal a call snapshots: e in calibrated mode, e0 in raw *)
(* mode                                                                    *)
CallSignal(c) ==
    IF teacache_use_coefficients
    THEN time_embedding(c.t)
    ELSE time_projection(time_embedding(c.t))

(* The sum a call on existing session p forms: the stored accumulated      *)
(* distance plus the distance of this call's signal from the stored one    *)
CallSum(c, p) ==
    F32Add(states[p].accumulated_rel_l1_distance,
           F32Cast(step_distance(states[p].previous_modulated_input,
                                 time_embedding(c.t),
                                 time_projection(time_embedding(c.t)))))

(* A forward call inside the window on a session the store holds *)
CachedCall(c) ==
    /\ c.op = "forward"
    /\ enable_teacache
    /\ InWindow(c.current_step)
    /\ c.pred_id \in DOMAIN states

(* C4: a call inside the window on an existing session adds the step's     *)
(* distance to the stored accumulated distance; it skips exactly when the  *)
(* sum is strictly below rel_l1_thresh (a sum equal to it computes), and   *)
(* after a skip the stored accumulated distance is that sum, not reset.    *)
C4_SkipIffSumBelowThreshold ==
    [][CachedCall(call')
          => LET p == call'.pred_id
                 sum == CallSum(call', p)
             IN  /\ ret'.raised = "none"
                 /\ (~ret'.should_calc) <=> LessRat(sum, rel_l1_thresh)
                 /\ sum = F32Rat(rel_l1_thresh) => ret'.should_calc
                 /\ (~ret'.should_calc)
                       => states'[p].accumulated_rel_l1_distance = sum]_vars

(* Two consecutive skips of 0.05 each have added up to 0.1, one step short *)
(* of 0.15                                                                 *)
C4_Witness ==
    /\ IsForward
    /\ ~ret.should_calc
    /\ rel_l1_thresh = <<3, 20>>
    /\ call.pred_id \in DOMAIN states
    /\ Session(call.pred_id).accumulated_rel_l1_distance
          = F32Add(F32Rat(<<1, 20>>), F32Rat(<<1, 20>>))
    /\ Session(call.pred_id).skipped_steps = 2

(* C5: on a skipped step the block loop does not run and the tensor handed *)
(* on is the call's x plus the session's stored previous_residual.         *)
C5_SkipAddsResidual ==
    [][(call'.op = "forward" /\ ~ret'.should_calc /\ ret'.raised = "none")
          => /\ ~ret'.ran_blocks
             /\ call'.pred_id \in DOMAIN states
             /\ ret'.x = TAdd(call'.x, states[call'.pred_id].previous_residual)
      ]_vars

C5_Witness ==
    /\ IsForward
    /\ ~ret.should_calc
    /\ ~ret.ran_blocks
    /\ call.pred_id \in DOMAIN states
    /\ ret.x = TAdd(call.x, Session(call.pred_id).previous_residual)
    /\ ret.x # Session(call.pred_id).previous_residual
    /\ ret.x # call.block_out

(* C6: after a call inside the window that computes, the session holds     *)
(* previous_residual = blocks' output minus their input,                   *)
(* previous_modulated_input = the call's modulation signal and an          *)
(* accumulated distance of 0; a forward call that does not compute does    *)
(* not reset the accumulated distance: it leaves it unchanged, or, on a    *)
(* skip, sets it to the sum of C4.                                         *)
C6_ComputeStoresAndResets ==
    [][call'.op = "forward" =>
         /\ (enable_teacache /\ InWindow(call'.current_step)
                /\ ret'.should_calc /\ ret'.raised = "none")
              => LET p == ret'.pred_id
                 IN  /\ p \in DOMAIN states'
                     /\ states'[p].previous_residual
                           = TSub(call'.block_out, call'.x)
                     /\ states'[p].previous_modulated_input
                           = CallSignal(call')
                     /\ states'[p].accumulated_rel_l1_distance = Zero
         /\ ~(enable_teacache /\ InWindow(call'.current_step)
                /\ ret'.should_calc /\ ret'.raised = "none")
              => /\ DOMAIN states' = DOMAIN states
                 /\ \A i \in DOMAIN states :
                       \/ states'[i].accumulated_rel_l1_distance
                             = states[i].accumulated_rel_l1_distance
                       \/ /\ i = call'.pred_id
                          /\ ~ret'.should_calc
                          /\ states'[i].accumulated_rel_l1_distance
                                = CallSum(call', i)]_vars

(* A session that had skipped twice has just computed again *)
C6_Witness ==
    /\ IsForward
    /\ ret.should_calc
    /\ ret.raised = "none"
    /\ call.pred_id \in DOMAIN states
    /\ InWindow(call.current_step)
    /\ Session(call.pred_id).skipped_steps = 2
    /\ Session(call.pred_id).accumulated_rel_l1_distance = Zero
    /\ Session(call.pred_id).previous_residual = TSub(call.block_out, call.x)
    /\ Session(call.pred_id).previous_modulated_input = CallSignal(call)

(* C7: a skipped step leaves the session's previous_modulated_input and    *)
(* previous_residual unchanged, and only a computing call inside the       *)
(* window sets previous_modulated_input, to that call's signal; so the     *)
(* stored signal is always that of the session's last computed step.       *)
C7_SnapshotIsLastComputed ==
    [][call'.op = "forward" =>
         \A i \in DOMAIN states \cap DOMAIN states' :
            IF i = ret'.pred_id /\ ret'.should_calc /\ ret'.raised = "none"
               /\ enable_teacache /\ InWindow(call'.current_step)
            THEN states'[i].previous_modulated_input = CallSignal(call')
            ELSE /\ states'[i].previous_modulated_input
                       = states[i].previous_modulated_input
                 /\ states'[i].previous_residual
                       = states[i].previous_residual]_vars

(* A step with a different signal was skipped and the stored one stayed *)
C7_Witness ==
    /\ IsForward
    /\ ~ret.should_calc
    /\ call.pred_id \in DOMAIN states
    /\ Session(call.pred_id).previous_modulated_input # CallSignal(call)
    /\ Session(call.pred_id).skipped_steps > 0

(* C8: a call inside the window that passes a pred_id the store does not   *)
(* hold (for example after clear_prediction or clear_all) completes        *)
(* without raising.                                                        *)
C8_CacheMissNeverRaises ==
    [][(call'.op = "forward" /\ enable_teacache
            /\ InWindow(call'.current_step)
            /\ call'.pred_id # NoPred
            /\ call'.pred_id \notin DOMAIN states)
          => ret'.raised = "none"]_vars

(* C9: under an invalid configuration (calibrated mode with an empty       *)
(* coefficient list, or a threshold that is not positive) no call inside   *)
(* the window completes as a silent skip or compute: it raises.            *)
InvalidConfig ==
    \/ teacache_use_coefficients /\ teacache_coefficients = <<>>
    \/ rel_l1_thresh[1] <= 0

C9_InvalidConfigSurfaced ==
    (IsForward /\ enable_teacache /\ InWindow(call.current_step)
        /\ InvalidConfig)
      => ret.raised # "none"

(* C10: the distance added per step is non-negative in raw and calibrated  *)
(* mode for every coefficient list, so no session's stored accumulated     *)
(* distance is ever negative.                                              *)
C10_AccumulatedNeverNegative ==
    \A i \in DOMAIN states :
        ~Less(Session(i).accumulated_rel_l1_distance, Zero)

(* C11: over the forward calls on a session skipped_steps never decreases: *)
(* a skipped step raises the called session's counter by exactly 1, and    *)
(* every other forward call (computing, bypassing or raising) leaves it    *)
(* as it was.                                                              *)
C11_SkippedStepsMonotone ==
    [][call'.op = "forward" =>
         \A i \in DOMAIN states \cap DOMAIN states' :
            IF i = call'.pred_id /\ ~ret'.should_calc /\ ret'.raised = "none"
            THEN states'[i].skipped_steps = states[i].skipped_steps + 1
            ELSE states'[i].skipped_steps = states[i].skipped_steps]_vars

(* A session that skipped once has computed again and kept its count *)
C11_Witness ==
    /\ IsForward
    /\ ret.should_calc
    /\ ret.raised = "none"
    /\ InWindow(call.current_step)
    /\ call.pred_id \in DOMAIN states
    /\ Session(call.pred_id).skipped_steps = 1
    /\ Session(call.pred_id).accumulated_rel_l1_distance = Zero

(* C12: over any sequence of new_prediction, clear_prediction and          *)
(* clear_all (and update, get), new_prediction does not raise and returns  *)
(* the counter's value, an id no session in the store holds; it raises the *)
(* counter by 1, stores under that id a session whose tensors are None and *)
(* whose distance and skip count are 0, and leaves the other sessions as   *)
(* they were.  clear_all leaves the store empty and the counter at 0, so   *)
(* the ids start again at 0.                                               *)
C12_NewPredictionFreshIds ==
    [][/\ call'.op = "new_prediction"
            => /\ ret'.raised = "none"
               /\ ret'.pred_id = next_pred_id
               /\ ret'.pred_id \notin DOMAIN states
               /\ next_pred_id' = next_pred_id + 1
               /\ DOMAIN states' = DOMAIN states \cup {ret'.pred_id}
               /\ states'[ret'.pred_id].previous_residual = None
               /\ states'[ret'.pred_id].previous_modulated_input = None
               /\ states'[ret'.pred_id].accumulated_rel_l1_distance = IntZero
               /\ states'[ret'.pred_id].skipped_steps = 0
               /\ \A i \in DOMAIN states : states'[i] = states[i]
       /\ call'.op = "clear_all"
            => /\ states' = <<>>
               /\ next_pred_id' = 0
       /\ (states = <<>> /\ call.op \in {"init", "clear_all"}
             /\ call'.op = "new_prediction")
            => ret'.pred_id = 0]_vars

(* new_prediction has returned id 0 and stored an empty session under it *)
C12_Witness ==
    /\ call.op = "new_prediction"
    /\ ret.pred_id = 0
    /\ next_pred_id = 1
    /\ DOMAIN states = {0}
    /\ Session(0).skipped_steps = 0
    /\ Session(0).previous_residual = None

(* C13: update, get and clear_prediction on an id the store does not hold  *)
(* do not raise and change neither the store nor the counter; update does  *)
(* not create the session and get returns an empty dict.                   *)
C13_UnknownIdTolerated ==
    [][(call'.op \in {"update", "get", "clear_prediction"}
            /\ call'.pred_id \notin DOMAIN states)
          => /\ ret'.raised = "none"
             /\ states' = states
             /\ next_pred_id' = next_pred_id
             /\ call'.op = "get" => DOMAIN ret'.x = {}]_vars

(* update on the cleared id 0 while session 1 is still held *)
C13_Witness ==
    /\ call.op = "update"
    /\ call.pred_id = 0
    /\ DOMAIN states = {1}
    /\ next_pred_id = 2
    /\ Session(1).skipped_steps = 2

(* The store cut down to session p *)
OnlySession(p) == [j \in DOMAIN states \cap {p} |-> states[j]]

(* C14: a forward call made with pred_id i, or with None and allocating a  *)
(* new session, leaves every field of every other session unchanged; and   *)
(* what a call on session i returns (skip or compute, the tensor, the id)  *)
(* is what it would return were i the only session in the store.           *)
C14_SessionsIsolated ==
    [][call'.op = "forward" =>
         /\ \A i \in DOMAIN states \ {call'.pred_id} :
               /\ i \in DOMAIN states'
               /\ states'[i] = states[i]
         /\ call'.pred_id # NoPred
              => ret' = forward(OnlySession(call'.pred_id), next_pred_id,
                                call'.current_step, call'.pred_id, call'.t,
                                call'.x, call'.block_out).ret]_vars

(* Session 0 has just skipped while session 1 holds another snapshot and   *)
(* another skip count                                                      *)
C14_Witness ==
    /\ IsForward
    /\ call.pred_id = 0
    /\ ~ret.should_calc
    /\ DOMAIN states = {0, 1}
    /\ Session(0).skipped_steps = 1
    /\ Session(1).skipped_steps = 2
    /\ Session(0).previous_modulated_input
          # Session(1).previous_modulated_input

(* C15: in a run with TeaCache enabled in which the caller passes None     *)
(* first and then hands each returned pred_id to the next call, with       *)
(* current_step counting up, no call raises, and a call given a pred_id    *)
(* returns that pred_id, also when its step lies outside the window while  *)
(* the session exists.                                                     *)
C15_ThreadedRunNeverRaises ==
    (IsForward /\ enable_teacache)
      => /\ ret.raised = "none"
         /\ call.pred_id # NoPred => ret.pred_id = call.pred_id

(* ceil(r / v) for a fraction r = <<n, d>> >= 0 and a scalar v > 0 *)
CeilDiv(r, v) ==
    LET num == IF v.e < 0 THEN r[1] * 2^(-v.e) ELSE r[1]
        den == IF v.e < 0 THEN r[2] * v.m ELSE r[2] * v.m * 2^v.e
    IN  (num + den - 1) \div den

(* C16: while every step of a session adds a distance of at least d > 0,   *)
(* the session's run of consecutive skipped steps stays shorter than       *)
(* ceil(rel_l1_thresh / d): the step that would make it that long computes.*)
C16_SkipStreakBounded ==
    \A i \in DOMAIN states \cap DOMAIN streak :
       (streak[i].n > 0 /\ Less(Zero, streak[i].d))
          => streak[i].n < CeilDiv(rel_l1_thresh, streak[i].d)

(* Two skips in a row of distance float32(0.05) each under threshold 0.15: *)
(* one short of ceil(0.15 / float32(0.05)) = 3                             *)
C16_Witness ==
    /\ IsForward
    /\ ~ret.should_calc
    /\ rel_l1_thresh = <<3, 20>>
    /\ call.pred_id \in DOMAIN states \cap DOMAIN streak
    /\ streak[call.pred_id] = [n |-> 2, d |-> F32Rat(<<1, 20>>)]

====
